---- MODULE Spec2Model ----
(***************************************************************************)
(* Model of the search pipeline of the Fink/Rubin Science Portal:          *)
(* the `results` callback of apps/search_results.py, which turns the       *)
(* search-bar input or the URL query string into a REST call and keeps    *)
(* the search history store.                                               *)
(*                                                                         *)
(* A Dash callback invocation is modelled in three steps: the browser      *)
(* fires the callback with the current Input/State values (Begin), the     *)
(* server runs the handler and computes its return value (Run), and the    *)
(* browser writes the returned outputs to the components (Write).  A       *)
(* callback that raises, PreventUpdate included, writes nothing.           *)
(*                                                                         *)
(* Of the four outputs of `results`, results.children and                  *)
(* search_history_store.data are state here; logo.is_open and              *)
(* search_bar_submit.children (always no_update) feed back into nothing.   *)
(* results.children is held as the kind of its text (children) and the     *)
(* components below it (page): the result table with its switches and      *)
(* dropdown, on which `update_table` acts, or the store of the cards.      *)
(*                                                                         *)
(* The REST API is the environment: each call of request_api of            *)
(* apps/api.py meets a reply, a status code with a body or a failure of    *)
(* the HTTP call.  A DataFrame is held as the sequence of its rows.        *)
(*                                                                         *)
(* The history store holds None until first written; `results` and the     *)
(* history menu read None and [] alike (`if not history`): both are <<>>.  *)
(***************************************************************************)
EXTENDS Integers, Sequences, FiniteSets, TLC

VARIABLES
    history,    \* search_history_store.data (absent and [] are read alike)
    children,   \* results.children, by kind of content
    inv,        \* the invocations of `results` in flight, per slot
    nfresh,     \* number of never-recorded query texts typed so far
    nrepeat,    \* number of submissions of a text taken from the history
    page,       \* the components results.children holds: table or cards
    upd,        \* the invocation of `update_table` in flight
    call,       \* a call of request_api by a client of apps/api.py
    modal_skymap,   \* modal_skymap.is_open, the value the browser holds
    transfer,   \* the data transfer page and the services behind it
    bar         \* the search bar: input, debounce timer, suggestion panel

vars ==
    <<history, children, inv, nfresh, nrepeat, page, upd, call, modal_skymap, transfer, bar>>

-----------------------------------------------------------------------------
(* Bounds of the model *)

\* invocations of `results` the browser may have in flight
MaxInFlight == 2

\* searches submitted while others may still be in flight
MaxSearches == 4

\* distinct texts searched in a long session
MaxFresh == 12

\* searches repeated from the history in a long session
MaxRepeat == 1

\* rows in a reply of the REST API to a search
MaxRows == 3

Slots == 1..MaxInFlight

-----------------------------------------------------------------------------
(* Python values *)

\* None, as the value of search_bar_input.value before anything is typed
None == "<None>"

\* truthiness of a str-or-None value (`not value`)
Falsy(v) == v = None \/ v = ""

Range(s) == {s[i] : i \in DOMAIN s}

Restrict(f, S) == [k \in S |-> f[k]]

EmptyDict == Restrict([x |-> ""], {})

\* dict.get(key, default)
Get(d, k, default) == IF k \in DOMAIN d THEN d[k] ELSE default

\* the strings float() and int() accept, with their values; radii are in
\* arcsec, coordinates in degrees
NumericValue ==
    [s \in {"5", "10", "30", "246", "25", "7", "17999", "18000", "18001", "100000"} |->
        CASE s = "5" -> 5 [] s = "10" -> 10 [] s = "30" -> 30
          [] s = "246" -> 246 [] s = "25" -> 25 [] s = "7" -> 7
          [] s = "17999" -> 17999 [] s = "18000" -> 18000
          [] s = "18001" -> 18001 [] s = "100000" -> 100000]

IsNumeric(v) == v \in DOMAIN NumericValue

Min(a, b) == IF a <= b THEN a ELSE b

-----------------------------------------------------------------------------
(* Program constants *)

\* `history[-10:]`
HistoryMax == 10

\* `float(query["params"].get("r", 10))`
DefaultRadius == 10

\* `min(..., 18000)`
MaxRadius == 18000

\* `int(query["params"].get("last", 100))`
DefaultLast == 100

-----------------------------------------------------------------------------
(* apps/utils.py *)

\* f"[{diaObjectid}](/{diaObjectid})"
markdownify_objectid(diaObjectid) == <<"[", diaObjectid, "](/", diaObjectid, ")">>

\* numeric times are counted in half days, so that 0.5 is a value
Threshold == 2400000

Abs(n) == IF n < 0 THEN 0 - n ELSE n

\* multiples of 1200000 days on each side of zero that the time values reach
MaxEpochs == 5

\* the numeric time values, in half days
TimeNumbers ==
    {2 * 1200000 * k + d : k \in (0 - MaxEpochs)..MaxEpochs, d \in (0 - 2)..2}
        \cup {2 * 58000, 2 * 58000 + 1, 2 * 2460000}

\* str(ft) for a number of half days: "58000", "0.5", "-1.5"
NumberText(h) ==
    (IF h < 0 THEN "-" ELSE "") \o ToString(Abs(h) \div 2)
        \o (IF Abs(h) % 2 = 1 THEN ".5" ELSE "")

NumericTexts == {NumberText(h) : h \in TimeNumbers}

\* float(t), in half days
float(t) == CHOOSE h \in TimeNumbers : NumberText(h) = t

\* Time(ft, format=...).iso: the ISO text of an instant, kept as the instant
\* it denotes in half days since JD 0; MJD 0 is JD 2400000.5
Iso(format, ft) == [iso |-> IF format = "jd" THEN ft ELSE ft + 2 * Threshold + 1]

\* ft // 2400000 (floor division)
FloorDiv(ft) == ft \div (2 * Threshold)

\* Time(t) raises ValueError on a number and parses an ISO date
isoify_time(t) ==
    IF t \in NumericTexts
    THEN IF FloorDiv(float(t)) # 0 THEN Iso("jd", float(t)) ELSE Iso("mjd", float(t))
    ELSE t \o " 00:00:00.000"

-----------------------------------------------------------------------------
(* apps/api.py: request_api, and the HTTP exchange it wraps *)

\* requests.post / requests.get returned: the server answered
Response(status_code, content) ==
    [tag |-> "response", status_code |-> status_code, content |-> content]

\* requests.post / requests.get raised: timeout, DNS, connection refused
Failure(error) == [tag |-> "failure", error |-> error]

\* bodies: a JSON array of records, a JSON object, text that is not JSON
Records(rows) == [kind |-> "records", rows |-> rows]

Object(fields) == [kind |-> "object", fields |-> fields]

NotJson == [kind |-> "text"]

\* the `json` argument: None, or a dict
JsonNone == [isdict |-> FALSE]

JsonDict(items) == [isdict |-> TRUE, items |-> items]

\* a value of a GET payload with its Python type
PyStr(v) == <<"str", v>>

PyInt(v) == <<"int", v>>

\* values request_api returns
DataFrame(rows) == [type |-> "DataFrame", rows |-> rows]

BytesIO(content) == [type |-> "BytesIO", content |-> content]

List(items) == [type |-> "list", items |-> items]

Dict(fields) == [type |-> "dict", fields |-> fields]

\* io.BytesIO()
NoContent == [kind |-> "none"]

\* how a call ends: with a value, or raising
Value(v) == [tag |-> "value", value |-> v]

Thrown(error) == [tag |-> "raise", error |-> error]

\* pd.read_json(io.BytesIO(r.content)): one row per record of an array, one
\* column per key of an object
read_json(content) ==
    CASE content.kind = "records" -> Value(DataFrame(content.rows))
      [] content.kind = "object" -> Value(DataFrame(<<content.fields>>))
      [] OTHER -> Thrown("ValueError")

\* r.json()
r_json(content) ==
    CASE content.kind = "records" -> Value(List(content.rows))
      [] content.kind = "object" -> Value(Dict(content.fields))
      [] OTHER -> Thrown("JSONDecodeError")

\* urllib.parse.quote_plus(v) takes a str; the GET arguments are encoded only
\* for a dict
Quotable(payload) ==
    payload.isdict => \A k \in DOMAIN payload.items : payload.items[k][1] = "str"

\* variant of request_api: a failure of the HTTP call answered as a non-200 status
request_api_Swallow(endpoint, payload, output, method, reply) ==
    CASE output = "json" ->
            IF reply.tag = "failure" \/ reply.status_code # 200
            THEN Value(List(<<>>)) ELSE r_json(reply.content)
      [] output = "raw" ->
            IF reply.tag = "failure" \/ reply.status_code # 200
            THEN Value(BytesIO(NoContent)) ELSE Value(BytesIO(reply.content))
      [] OTHER ->
            IF reply.tag = "failure" \/ reply.status_code # 200
            THEN Value(DataFrame(<<>>)) ELSE read_json(reply.content)

\* variant of request_api: the body decoded whatever the status
request_api_AnyStatus(endpoint, payload, output, method, reply) ==
    IF reply.tag = "failure" THEN Thrown(reply.error)
    ELSE CASE output = "json" -> r_json(reply.content)
           [] output = "raw" -> Value(BytesIO(reply.content))
           [] OTHER -> read_json(reply.content)

\* `reply` is what the HTTP call of this invocation meets
request_api(endpoint, payload, output, method, reply) ==
    IF method \notin {"POST", "GET"} THEN Thrown("UnboundLocalError")
    ELSE IF method = "GET" /\ ~Quotable(payload) THEN Thrown("TypeError")
    ELSE IF reply.tag = "failure" THEN Thrown(reply.error)
    ELSE CASE output = "json" ->
                 IF reply.status_code # 200 THEN Value(List(<<>>))
                 ELSE r_json(reply.content)
           [] output = "raw" ->
                 IF reply.status_code # 200 THEN Value(BytesIO(NoContent))
                 ELSE Value(BytesIO(reply.content))
           [] OTHER ->
                 IF reply.status_code # 200 THEN Value(DataFrame(<<>>))
                 ELSE read_json(reply.content)

-----------------------------------------------------------------------------
(* pandas, on a DataFrame held as the sequence of its rows *)

\* a missing value of a column (null in the JSON of the REST API)
NaN == 0 - 1

\* the columns of a row that the search page reads
Row(dia, ss, mjd, sep, ssnamenr, tracklet) ==
    ("r:diaObjectId" :> dia) @@ ("r:ssObjectId" :> ss)
    @@ ("r:midpointMjdTai" :> mjd) @@ ("v:separation_degree" :> sep)
    @@ ("i:ssnamenr" :> ssnamenr) @@ ("d:tracklet" :> tracklet)

\* the elements of a set of integers in ascending order
Ascending(S) ==
    CHOOSE f \in [1..Cardinality(S) -> S] :
        \A i, j \in 1..Cardinality(S) : i < j => f[i] < f[j]

\* pdf[mask]: the rows at the indices I, in their order
Take(rows, I) == LET f == Ascending(I) IN [n \in DOMAIN f |-> rows[f[n]]]

\* pdf.duplicated(subset=col): a row is a duplicate of an earlier one
duplicated(rows, col) ==
    {i \in DOMAIN rows : \E j \in 1..(i - 1) : rows[j][col] = rows[i][col]}

\* variant of drop_duplicates: keep="last"
drop_duplicates_Last(rows, col) ==
    Take(rows, {i \in DOMAIN rows :
                   \A j \in (i + 1)..Len(rows) : rows[j][col] # rows[i][col]})

\* pdf.drop_duplicates(subset=col, keep="first")
drop_duplicates(rows, col) == Take(rows, DOMAIN rows \ duplicated(rows, col))

\* pdf.sort_values(col, ascending=...): rows with equal values keep their order
sort_values(rows, col, ascending) ==
    LET Before(i, j) ==
            \/ IF ascending THEN rows[i][col] < rows[j][col]
                            ELSE rows[i][col] > rows[j][col]
            \/ rows[i][col] = rows[j][col] /\ i < j
        Rank(i) == Cardinality({j \in DOMAIN rows : Before(j, i)}) + 1
    IN  [n \in DOMAIN rows |-> rows[CHOOSE i \in DOMAIN rows : Rank(i) = n]]

\* pdf.loc[pdf.groupby(col)["r:midpointMjdTai"].idxmax()]: for each value of
\* col but NaN, in ascending order, the first of its rows of latest time
LatestPerGroup(rows, col) ==
    LET groups == {rows[i][col] : i \in DOMAIN rows} \ {NaN}
        Members(g) == {i \in DOMAIN rows : rows[i][col] = g}
        idxmax(g) ==
            CHOOSE i \in Members(g) :
                \A j \in Members(g) :
                    \/ rows[j]["r:midpointMjdTai"] < rows[i]["r:midpointMjdTai"]
                    \/ rows[j]["r:midpointMjdTai"] = rows[i]["r:midpointMjdTai"] /\ i <= j
        order == Ascending(groups)
    IN  [n \in DOMAIN order |-> rows[idxmax(order[n])]]

-----------------------------------------------------------------------------
(* apps/parse.py: parse_query, as the specification describes it.  The    *)
(* texts are a catalogue of search-bar inputs, one per kind of intent.    *)

SsoNames ==
    <<"Ceres", "Pallas", "Juno", "Vesta", "Astraea", "Hebe", "Iris", "Flora",
      "Metis", "Hygiea", "Parthenope", "Victoria", "Egeria", "Irene",
      "Eunomia", "Psyche">>

ParsedQuery(action, object, params) ==
    [action |-> action, object |-> object, partial |-> FALSE, params |-> params]

parse_query(value) ==
    CASE value = "trend=rising" ->
            ParsedQuery("unknown", "", [trend |-> "rising"])
      [] value = "last=5" ->
            ParsedQuery("unknown", "", [last |-> "5"])
      [] value = "class=SN last=10" ->
            ParsedQuery("class", "", [class |-> "SN", last |-> "10"])
      [] value \in Range(SsoNames) ->
            ParsedQuery("sso", value, [sso |-> value])
      [] OTHER ->
            ParsedQuery("unknown", value, EmptyDict)

\* str.strip() on the texts of the catalogue
Strip(value) ==
    CASE value = "  " -> ""
      [] value = " class=SN last=10 " -> "class=SN last=10"
      [] OTHER -> value

-----------------------------------------------------------------------------
(* apps/search_results.py: results *)

\* ctx.triggered[0]["prop_id"].split(".")[0], "url" when empty
TriggeredId(trig) == IF trig = "" THEN "url" ELSE trig

\* safeguards against triggering on initial mount of components
Safeguard(a) ==
    \/ TriggeredId(a.trig) \in {"search_bar_input", "search_bar_submit", "search_bar_suggestion"}
       /\ ~a.n
    \/ TriggeredId(a.trig) = "url" /\ ~a.hasurl

\* the query built from the GET parameters of the url
UrlToQuery(q) ==
    LET popped == DOMAIN q \cap {"action", "partial", "object"}
    IN  [k \in popped \cup {"params"} |->
            IF k = "params" THEN Restrict(q, DOMAIN q \ popped) ELSE q[k]]

FromUrl(a) == a.hasurl /\ TriggeredId(a.trig) = "url"

\* `trend` without a class search
TrendRejected(query) ==
    query.action # "class" /\ "trend" \in DOMAIN query.params

\* variant of LastRejected: the check on `last` left out
LastRejected_Never(query) == FALSE

\* `last` with an unrecognised query
LastRejected(query) ==
    "last" \in DOMAIN query.params /\ query.action = "unknown"

Fail(error) == [tag |-> "raise", error |-> error]

Call(endpoint, json, bound, main_id) ==
    [tag |-> "call", endpoint |-> endpoint, json |-> json,
     endpoint_bound |-> bound, main_id |-> main_id]

\* optional payload entry
Entry(present, key, val) == IF present THEN key :> val ELSE EmptyDict

ObjectSearch(query) ==
    IF "object" \notin DOMAIN query THEN Fail("KeyError")
    ELSE Call("/api/v1/sources", [diaObjectId |-> query.object], FALSE, "r:diaObjectId")

SsoSearch(query) ==
    IF "sso" \notin DOMAIN query.params THEN Fail("KeyError")
    ELSE Call("/api/v1/sso", [n_or_d |-> query.params.sso], TRUE, "r:ssObjectId")

TrackletSearch(query) ==
    IF "object" \notin DOMAIN query THEN Fail("KeyError")
    ELSE Call("/api/v1/tracklet", [id |-> query.object], TRUE, "r:diaObjectId")

\* variant of ConeRadius: the radius sent as given
ConeRadius_NoCap(p) ==
    IF "r" \in DOMAIN p THEN NumericValue[p.r] ELSE DefaultRadius

\* default is 10 arcsec, max is 5 degrees
ConeRadius(p) ==
    Min(IF "r" \in DOMAIN p THEN NumericValue[p.r] ELSE DefaultRadius, MaxRadius)

ConesearchPayload(p) ==
    [ra |-> NumericValue[p.ra], dec |-> NumericValue[p.dec], radius |-> ConeRadius(p)]
    @@ Entry("after" \in DOMAIN p, "startdate", isoify_time(Get(p, "after", "")))
    @@ (IF "before" \in DOMAIN p
        THEN "stopdate" :> isoify_time(p.before)
        ELSE Entry("window" \in DOMAIN p, "window", Get(p, "window", "")))

Conesearch(query) ==
    LET p == query.params IN
    IF "ra" \notin DOMAIN p \/ "dec" \notin DOMAIN p THEN Fail("TypeError")
    ELSE IF ~IsNumeric(p.ra) \/ ~IsNumeric(p.dec) \/ ~IsNumeric(Get(p, "r", "10"))
    THEN Fail("ValueError")
    ELSE Call("/api/v1/conesearch", ConesearchPayload(p), TRUE, "r:diaObjectId")

\* variant of LastN: `last` not read
LastN_Default(p) == DefaultLast

LastN(p) == IF "last" \in DOMAIN p THEN NumericValue[p.last] ELSE DefaultLast

ClassPayload(p) ==
    ("class" :> Get(p, "class", None)) @@ ("n" :> LastN(p))
    @@ Entry("after" \in DOMAIN p, "startdate", isoify_time(Get(p, "after", "")))
    @@ Entry("before" \in DOMAIN p, "stopdate", isoify_time(Get(p, "before", "")))
    @@ Entry("trend" \in DOMAIN p, "trend", Get(p, "trend", ""))

ClassSearch(query) ==
    IF ~IsNumeric(Get(query.params, "last", "10")) THEN Fail("ValueError")
    ELSE Call("/api/v1/latests", ClassPayload(query.params), TRUE, "r:diaObjectId")

AnomalyPayload(p) ==
    ("n" :> LastN(p))
    @@ Entry("after" \in DOMAIN p, "start_date", isoify_time(Get(p, "after", "")))
    @@ Entry("before" \in DOMAIN p, "stop_date", isoify_time(Get(p, "before", "")))

AnomalySearch(query) ==
    IF ~IsNumeric(Get(query.params, "last", "10")) THEN Fail("ValueError")
    ELSE Call("/api/v1/anomaly", AnomalyPayload(query.params), TRUE, "r:diaObjectId")

\* variant of Dispatch: no branch for unknown, the anomaly search as the final else
Dispatch_NoUnknown(query) ==
    CASE query.action = "diaObjectid" -> ObjectSearch(query)
      [] query.action = "sso" -> SsoSearch(query)
      [] query.action = "tracklet" -> TrackletSearch(query)
      [] query.action = "conesearch" -> Conesearch(query)
      [] query.action = "class" -> ClassSearch(query)
      [] OTHER -> AnomalySearch(query)

\* the if/elif chain on query["action"]
Dispatch(query) ==
    CASE query.action = "unknown" -> [tag |-> "unknown"]
      [] query.action = "diaObjectid" -> ObjectSearch(query)
      [] query.action = "sso" -> SsoSearch(query)
      [] query.action = "tracklet" -> TrackletSearch(query)
      [] query.action = "conesearch" -> Conesearch(query)
      [] query.action = "class" -> ClassSearch(query)
      [] query.action = "anomaly" -> AnomalySearch(query)
      [] OTHER -> [tag |-> "unhandled"]

\* variant of Latest: the history never cut
Latest_NoLimit(h) == h

\* variant of Latest: history[:10]
Latest_Oldest(h) == IF Len(h) <= HistoryMax THEN h ELSE SubSeq(h, 1, HistoryMax)

\* history[-10:]
Latest(h) ==
    IF Len(h) <= HistoryMax THEN h ELSE SubSeq(h, Len(h) - HistoryMax + 1, Len(h))

\* variant of RemoveAll: earlier occurrences kept
RemoveAll_Keep(h, value) == h

\* remove duplicates
RemoveAll(h, value) == SelectSeq(h, LAMBDA x : x # value)

\* add to history
AddToHistory(h, value) == Latest(Append(RemoveAll(h, value), value))

NoUpdate == [update |-> FALSE, data |-> <<>>]

Keep(h) == [update |-> TRUE, data |-> h]

PreventUpdate ==
    [kind |-> "PreventUpdate", children |-> "", history |-> NoUpdate, error |-> ""]

Raise(error) ==
    [kind |-> "raise", children |-> "", history |-> NoUpdate, error |-> error]

Return(content, h) ==
    [kind |-> "return", children |-> content, history |-> h, error |-> ""]

\* the components of the page below the text of results.children
NoPage == [view |-> "none"]

\* populate_result_table and the switches and dropdown of display_table_results;
\* `result` keeps the rows the table was created with
TablePage(data, columns, options) ==
    [view |-> "table", data |-> data, columns |-> columns, result |-> data,
     switches |-> [object |-> FALSE, sso |-> FALSE, tracklet |-> FALSE],
     dropdown |-> None, options |-> options]

\* display_cards_results: results_store, shown as cards in its order by on_paginate
\* pdf.to_json(): per column, the values by index label
to_json(pdf) ==
    [index |-> DOMAIN pdf,
     columns |-> IF pdf = <<>> THEN <<>>
                 ELSE [c \in DOMAIN pdf[1] |-> [i \in DOMAIN pdf |-> pdf[i][c]]]]

\* pd.read_json(io.StringIO(data)): the rows again, one per index label
from_json(data) ==
    [i \in data.index |-> [c \in DOMAIN data.columns |-> data.columns[c][i]]]

DefaultPageSize == 10

\* cards per page, and result rows shown as cards
MaxPageSize == 3

MaxCards == 11

PageSizes == (1..MaxPageSize) \cup {DefaultPageSize}

\* int(page_size) of the text str(page_size)
int(text) == CHOOSE n \in PageSizes : ToString(n) = text

\* int(np.ceil(n / page_size))
Ceil(n, page_size) == IF n % page_size = 0 THEN n \div page_size ELSE n \div page_size + 1

\* pdf.iloc[start:stop], positions counted from 0, stop excluded
iloc(pdf, start, stop) ==
    IF start >= Min(stop, Len(pdf)) THEN <<>> ELSE SubSeq(pdf, start + 1, Min(stop, Len(pdf)))

\* variant of on_paginate: a page runs up to the first row of the next one
on_paginate_Overlap(value, data, page_size) ==
    LET pdf == from_json(data)
        size == int(page_size)
        n == IF value = 0 THEN 1 ELSE value
    IN iloc(pdf, (n - 1) * size, Min(n * size + 1, Len(pdf)))

\* the cards of page `value` (0 for an unset page), by the rows they show
on_paginate(value, data, page_size) ==
    LET pdf == from_json(data)
        size == int(page_size)
        n == IF value = 0 THEN 1 ELSE value
    IN iloc(pdf, (n - 1) * size, Min(n * size, Len(pdf)))

\* the components of the card view: the three stores, the pagination, the
\* cards in results_paginated (on_paginate is called when they are laid out)
display_cards_results(pdf, page_size) ==
    [view |-> "cards", store |-> pdf,
     results_store |-> to_json(pdf),
     results_page_size_store |-> ToString(page_size),
     total |-> Ceil(Len(pdf), page_size),
     hidden |-> Ceil(Len(pdf), page_size) = 1,
     value |-> 1,
     pending |-> TRUE,
     results_paginated |-> <<>>]

CardsPage(pdf) == display_cards_results(pdf, DefaultPageSize)

Outcome(ret, calls) == [ret |-> ret, calls |-> calls, page |-> NoPage]

Showing(outcome, content) == [outcome EXCEPT !.page = content]

SearchCall(d, reply) == [endpoint |-> d.endpoint, json |-> d.json, reply |-> reply]

SchemaCall(d, reply) ==
    [endpoint |-> "/api/v1/schema", json |-> [endpoint |-> d.endpoint], reply |-> reply]

\* pdf[main_id].apply(markdownify_objectid)
Markdownify(rows, main_id) ==
    [i \in DOMAIN rows |-> [rows[i] EXCEPT ![main_id] = markdownify_objectid(@)]]

\* colnames_to_display
ColumnsToDisplay(endpoint) ==
    IF endpoint = "/api/v1/conesearch"
    THEN <<"r:diaObjectId", "v:separation_degree", "f:finkclass", "r:nDiaSources">>
    ELSE <<"r:diaObjectId", "r:ra", "r:dec", "f:finkclass", "r:nDiaSources">>

SchemaKeys == {"Fink science module outputs (f:)", "Rubin original fields (r:)"}

\* display_table_results: the table under a dropdown of the fields of the schema
display_table_results(data, columns, endpoint, reply) ==
    LET schema == request_api("/api/v1/schema", JsonDict([endpoint |-> endpoint]),
                              "json", "POST", reply)
    IN  IF schema.tag = "raise" THEN schema
        ELSE IF schema.value.type = "list" THEN Thrown("TypeError")
        ELSE IF ~(SchemaKeys \subseteq DOMAIN schema.value.fields) THEN Thrown("KeyError")
        ELSE LET fields == schema.value.fields
                 fink_fields == {"f:" \o i : i \in fields["Fink science module outputs (f:)"]}
                 rubin_fields == {"r:" \o i : i \in fields["Rubin original fields (r:)"]}
             IN  Value(TablePage(data, columns, fink_fields \cup rubin_fields))

\* from the call of request_api to the end of the callback
Display(d, value, a, resp) ==
    LET search == SearchCall(d, resp.search)
        api == request_api(d.endpoint, JsonDict(d.json), "pandas", "POST", resp.search)
    IN
    IF api.tag = "raise" THEN Outcome(Raise(api.error), <<search>>)
    ELSE
    LET found == api.value.rows
        pdf0 == IF d.endpoint \in {"/api/v1/sources", "/api/v1/sso"} /\ found # <<>>
                THEN LatestPerGroup(found, d.main_id) ELSE found
        h == AddToHistory(a.history, value)
    IN
    IF pdf0 = <<>>
    THEN Outcome(Return("nothing found", Keep(h)), <<search>>)
    ELSE
    LET pdf == Markdownify(pdf0, d.main_id)
        data == IF d.endpoint = "/api/v1/conesearch"
                THEN sort_values(pdf, "v:separation_degree", TRUE)
                ELSE sort_values(pdf, "r:midpointMjdTai", FALSE)
    IN
    IF a.show_table
    THEN IF ~d.endpoint_bound
         THEN Outcome(Raise("UnboundLocalError"), <<search>>)
         ELSE LET results_ == display_table_results(data, ColumnsToDisplay(d.endpoint),
                                                    d.endpoint, resp.schema)
                  made == <<search, SchemaCall(d, resp.schema)>>
              IN  IF results_.tag = "raise"
                  THEN Outcome(Raise(results_.error), made)
                  ELSE Showing(Outcome(Return("results", Keep(h)), made), results_.value)
    ELSE Showing(Outcome(Return("results", Keep(h)), <<search>>), CardsPage(pdf))

\* from the checks on the query to the end of the callback
Handle(query, value, a, resp) ==
    IF "action" \notin DOMAIN query
    THEN Outcome(Raise("KeyError"), <<>>)
    ELSE IF query.action = ""
    THEN Outcome(Return("none", NoUpdate), <<>>)
    ELSE IF TrendRejected(query)
    THEN Outcome(Return("trend warning", Keep(a.history)), <<>>)
    ELSE IF LastRejected(query)
    THEN Outcome(Return("last warning", Keep(a.history)), <<>>)
    ELSE LET d == Dispatch(query) IN
         CASE d.tag = "unknown" -> Outcome(Return("not recognized", NoUpdate), <<>>)
           [] d.tag = "unhandled" -> Outcome(Return("unhandled", NoUpdate), <<>>)
           [] d.tag = "raise" -> Outcome(Raise(d.error), <<>>)
           [] d.tag = "call" -> Display(d, value, a, resp)

\* the text `results` works with: the stripped input, unless the url triggered
ValueOf(a) == IF FromUrl(a) THEN a.value ELSE Strip(a.value)

\* the query `results` works with
QueryOf(a) == IF FromUrl(a) THEN UrlToQuery(a.url) ELSE parse_query(ValueOf(a))

\* whether `results` gets as far as building the query
Parses(a) ==
    /\ ~Safeguard(a)
    /\ ~(Falsy(a.value) /\ ~a.hasurl)
    /\ (FromUrl(a) \/ a.value # None)

results(a, resp) ==
    IF Safeguard(a)
    THEN Outcome(PreventUpdate, <<>>)
    ELSE IF Falsy(a.value) /\ ~a.hasurl
    THEN Outcome(Return("none", NoUpdate), <<>>)
    ELSE IF ~FromUrl(a) /\ a.value = None
    THEN Outcome(Raise("AttributeError"), <<>>)
    ELSE Handle(QueryOf(a), ValueOf(a), a, resp)

-----------------------------------------------------------------------------
(* apps/search_results.py: update_table *)

\* variant of UniqueOrSentinel: the rows of the sentinel deduplicated like the others
UniqueOrSentinel_NoPass(rows, col, sentinel) ==
    Take(rows, DOMAIN rows \ duplicated(rows, col))

\* mask = ~pdf.duplicated(subset=col) | (pdf[col] == sentinel), unless every
\* row holds the sentinel
UniqueOrSentinel(rows, col, sentinel) ==
    IF \A i \in DOMAIN rows : rows[i][col] = sentinel
    THEN rows
    ELSE Take(rows, (DOMAIN rows \ duplicated(rows, col))
                    \cup {i \in DOMAIN rows : rows[i][col] = sentinel})

Updated(data, columns) == Value([data |-> data, columns |-> columns])

update_table(changed_id, field_dropdown, groupby1, groupby2, groupby3, data, columns) ==
    IF changed_id = "field-dropdown2.value"
    THEN IF field_dropdown = None \/ Len(columns) = 0
         THEN Thrown("PreventUpdate")
         ELSE IF \E i \in DOMAIN columns : columns[i] = field_dropdown
         THEN Thrown("PreventUpdate")
         ELSE Updated(data, Append(columns, field_dropdown))
    ELSE IF ~(groupby1 \/ groupby2 \/ groupby3)
    THEN Thrown("PreventUpdate")
    ELSE IF data = <<>>
    THEN Thrown("KeyError")
    ELSE IF groupby1
    THEN Updated(drop_duplicates(data, "r:diaObjectId"), columns)
    ELSE IF groupby2
    THEN Updated(UniqueOrSentinel(data, "i:ssnamenr", "null"), columns)
    ELSE Updated(UniqueOrSentinel(data, "d:tracklet", ""), columns)

\* update_table on the Input and State values a
UpdateTable(a) ==
    update_table(a.changed_id, a.field_dropdown, a.groupby1, a.groupby2, a.groupby3,
                 a.data, a.columns)

-----------------------------------------------------------------------------
(* The REST API, as `results` meets it: the reply to the search and the    *)
(* reply to the request for the schema, should it be made                  *)

SomeRows ==
    <<Row(1, 1, 1, 2, "null", ""), Row(2, 2, 2, 1, "Ceres", "TRCK_20231107_000000_00")>>

Schema ==
    ("Fink science module outputs (f:)" :> {})
    @@ ("Rubin original fields (r:)" :> {"midpointMjdTai"})

SearchReplies ==
    {Response(200, Records(<<>>)), Response(200, Records(SomeRows)),
     Response(500, NotJson), Failure("ConnectionError")}

SchemaReplies == {Response(200, Object(Schema)), Response(500, NotJson)}

Responses == [search : SearchReplies, schema : SchemaReplies]

-----------------------------------------------------------------------------
(* Steps of an invocation of `results` *)

Idle == [pc |-> "idle"]

\* the browser fires the callback with the Input and State values
Begin(s, input) ==
    /\ inv[s].pc = "idle"
    /\ inv' = [inv EXCEPT ![s] =
                  [pc |-> "running", args |-> input @@ [history |-> history]]]
    /\ UNCHANGED <<history, children, page, upd, call, modal_skymap, transfer, bar>>

\* the server runs the callback, the REST API replying one of `replies`
Serve(s, replies) ==
    /\ inv[s].pc = "running"
    /\ \E resp \in replies :
          inv' = [inv EXCEPT ![s] =
                     [pc |-> "returned", args |-> inv[s].args,
                      out |-> results(inv[s].args, resp)]]
    /\ UNCHANGED <<history, children, nfresh, nrepeat, page, upd, call, modal_skymap, transfer, bar>>

Run(s) == Serve(s, Responses)

\* the replies of a REST API that is up: the search answered, the schema served
Answers == {resp \in Responses : resp.search.tag = "response" /\ resp.schema.status_code = 200}

RunAnswered(s) == Serve(s, Answers)

\* what the page shows for the returned children
Rendered(content) ==
    CASE content = "none" -> "none"
      [] content = "results" -> "results"
      [] OTHER -> "alert"

\* variant of Write: a result on the page is not replaced
Write_FirstWins(s) ==
    /\ inv[s].pc = "returned"
    /\ LET ret == inv[s].out.ret IN
       /\ children' = IF ret.kind = "return" THEN Rendered(ret.children) ELSE children
       /\ history' = IF ret.kind = "return" /\ ret.history.update
                     THEN ret.history.data ELSE history
       /\ page' = IF ret.kind = "return" /\ page.view = "none" THEN inv[s].out.page ELSE page
    /\ inv' = [inv EXCEPT ![s] = Idle]
    /\ UNCHANGED <<nfresh, nrepeat, upd, call, modal_skymap, transfer, bar>>

-----------------------------------------------------------------------------
(* search_results.py: the sky map modal and its client-side callback       *)
(* toggle_modal_skymap(n1, n2, is_open), in JavaScript                     *)

\* JavaScript values of is_open: a boolean, or the number an operator made
JsBoolean(b) == [boolean |-> TRUE, n |-> IF b THEN 1 ELSE 0]

JsNumber(n) == [boolean |-> FALSE, n |-> n]

\* truthiness of a boolean or a number
Truthy(v) == v.n # 0

\* variant of BitNot: the arithmetic negation
BitNot_Negate(v) == JsNumber(0 - v.n)

\* ~v: the operand converted to a 32-bit integer, all bits flipped
BitNot(v) == JsNumber(0 - v.n - 1)

toggle_modal_skymap(n1, n2, is_open) ==
    IF n1 > 0 \/ n2 > 0 THEN BitNot(is_open) ELSE is_open

\* clicks on the buttons of the modal
MaxClicks == 19

\* modal_skymap() as laid out: closed, no button clicked
ModalSkymap == [is_open |-> JsBoolean(FALSE), open_modal_skymap |-> 0, close_modal_skymap |-> 0]

-----------------------------------------------------------------------------
(* datatransfer.py: the page as laid out                                   *)

min_step == 0

max_step == 4

\* jobs submitted from the page, over its reloads
MaxSubmits == 2

\* an unset `active` (None), and the empty children of batch_id and topic_name
Unset == 0 - 1

NoBatch == 0

NoTopic == 0

\* a step of submit_job that was not reached
NotCalled == 0

\* the outputs of the last click on 'Submit job', and the calls it made
NoJob == [clicked |-> FALSE]

\* the components of the page as laid out; first_step is called on load
PageLayout ==
    [active |-> 0, back_hidden |-> FALSE, next_hidden |-> FALSE,
     pending |-> {"first_step"}, triggered_id |-> "", current |-> 0,
     disabled |-> FALSE, notification |-> "", batch_id |-> NoBatch,
     topic_name |-> NoTopic, batch_log |-> "", job |-> NoJob]

\* the services behind the page: files on HDFS, batches of the Spark cluster
\* (numbered from 1), and the batches whose log was asked for
Services == [topics |-> 0, uploaded |-> {}, batches |-> 0, polled |-> {}]

TransferPage == PageLayout @@ Services

\* variant of update: steps without looking at the ends
update_NoEnds(button_id, current) ==
    LET step == IF current # Unset THEN current ELSE 0
    IN IF button_id = "back-basic-usage" THEN step - 1 ELSE step + 1

update(button_id, current) ==
    LET step == IF current # Unset THEN current ELSE 0
    IN IF button_id = "back-basic-usage"
       THEN (IF step > min_step THEN step - 1 ELSE step)
       ELSE (IF step < max_step THEN step + 1 ELSE step)

\* the style written: {"display": "none"} or {}
last_step(current) == current = max_step - 1 \/ current = max_step

first_step(current) == current = 0 \/ current = Unset

\* variant of submit_job: the Spark job submitted whatever the upload returned
submit_job_NoCheck(n_clicks, topic, upload, spark, batchid) ==
    IF n_clicks > 0
    THEN IF spark # 201
         THEN [disabled |-> TRUE, notification |-> "red", set |-> FALSE,
               upload |-> upload, spark |-> spark]
         ELSE [disabled |-> TRUE, notification |-> "green", set |-> TRUE,
               batch_id |-> batchid, topic_name |-> topic,
               upload |-> upload, spark |-> spark]
    ELSE [disabled |-> FALSE, notification |-> "", set |-> FALSE,
          upload |-> NotCalled, spark |-> NotCalled]

\* submit_job, the click being the n_clicks-th, with the status upload_file_hdfs
\* returns and the status and batch id submit_spark_job returns if called;
\* `set` tells batch_id and topic_name from no_update
submit_job(n_clicks, topic, upload, spark, batchid) ==
    IF n_clicks > 0
    THEN IF upload # 201
         THEN [disabled |-> TRUE, notification |-> "red", set |-> FALSE,
               upload |-> upload, spark |-> NotCalled]
         ELSE IF spark # 201
         THEN [disabled |-> TRUE, notification |-> "red", set |-> FALSE,
               upload |-> upload, spark |-> spark]
         ELSE [disabled |-> TRUE, notification |-> "green", set |-> TRUE,
               batch_id |-> batchid, topic_name |-> topic,
               upload |-> upload, spark |-> spark]
    ELSE [disabled |-> FALSE, notification |-> "", set |-> FALSE,
          upload |-> NotCalled, spark |-> NotCalled]

\* update_log: the output by kind, or no_update ("") without any request
update_log(batchid, reply) ==
    IF batchid # NoBatch
    THEN CASE reply = "log" -> "starting"
           [] reply = "traceback" -> "failed"
           [] reply = "msg" -> "text"
           [] OTHER -> "UnboundLocalError"
    ELSE ""

-----------------------------------------------------------------------------
(* searchbar.py: the search bar as laid out                                *)

\* invocations of update_suggestions the browser may have in flight
MaxPending == 2

\* no invocation made yet
NotRun == [ran |-> FALSE]

\* the input without value, the timer disabled, the panel closed; `timer` and
\* `last` are the last invocations of the timer callback and of
\* update_suggestions, `pending` the invocations of update_suggestions in flight
SearchBar ==
    [value |-> None, n_intervals |-> 0, disabled |-> TRUE, is_open |-> FALSE,
     suggestions |-> FALSE, pending |-> {}, timer |-> NotRun, last |-> NotRun]

SuggestionId == "{\"type\":\"search_bar_suggestion\",\"value\":0}"

\* the client-side callback of the timer; `reset` tells n_intervals = 0 from
\* no_update
start_suggestion_debounce_timer(triggered, n_intervals) ==
    IF triggered \in {"search_bar_input.n_submit", "search_bar_submit.n_clicks"}
    THEN [reset |-> FALSE, disabled |-> TRUE]
    ELSE IF n_intervals > 0 THEN [reset |-> TRUE, disabled |-> FALSE]
    ELSE [reset |-> FALSE, disabled |-> FALSE]

\* variant of update_suggestions: suggestions computed on a submit too
update_suggestions_OnSubmit(prop_id, n_intervals, value) ==
    IF n_intervals # 1
    THEN [kind |-> "return", parsed |-> FALSE, children |-> "no_update", is_open |-> "no_update"]
    ELSE IF value = None
    THEN [kind |-> "raise", parsed |-> FALSE, children |-> "no_update", is_open |-> "no_update"]
    ELSE IF Strip(value) = ""
    THEN [kind |-> "return", parsed |-> FALSE, children |-> "None", is_open |-> "False"]
    ELSE [kind |-> "return", parsed |-> TRUE, children |-> "suggestions", is_open |-> "True"]

\* update_suggestions, triggered by prop_id; the outputs children and is_open
\* by kind, `parsed` telling whether parse_query was called
update_suggestions(prop_id, n_intervals, value) ==
    IF prop_id \in {"search_bar_input", "search_bar_submit", SuggestionId}
    THEN [kind |-> "return", parsed |-> FALSE, children |-> "no_update", is_open |-> "False"]
    ELSE IF n_intervals # 1
    THEN [kind |-> "return", parsed |-> FALSE, children |-> "no_update", is_open |-> "no_update"]
    ELSE IF value = None
    THEN [kind |-> "raise", parsed |-> FALSE, children |-> "no_update", is_open |-> "no_update"]
    ELSE IF Strip(value) = ""
    THEN [kind |-> "return", parsed |-> FALSE, children |-> "None", is_open |-> "False"]
    ELSE IF Falsy(parse_query(value).action)
    THEN [kind |-> "return", parsed |-> TRUE, children |-> "None", is_open |-> "False"]
    ELSE [kind |-> "return", parsed |-> TRUE, children |-> "suggestions", is_open |-> "True"]

-----------------------------------------------------------------------------
\* the browser writes the returned outputs
Write(s) ==
    /\ inv[s].pc = "returned"
    /\ LET ret == inv[s].out.ret IN
       /\ children' = IF ret.kind = "return" THEN Rendered(ret.children) ELSE children
       /\ history' = IF ret.kind = "return" /\ ret.history.update
                     THEN ret.history.data ELSE history
       /\ page' = IF ret.kind = "return" THEN inv[s].out.page ELSE page
    /\ inv' = [inv EXCEPT ![s] = Idle]
    /\ UNCHANGED <<nfresh, nrepeat, upd, call, modal_skymap, transfer, bar>>

Init ==
    /\ history = <<>>
    /\ children = "logo"
    /\ inv = [s \in Slots |-> Idle]
    /\ nfresh = 0
    /\ nrepeat = 0
    /\ page = NoPage
    /\ upd = Idle
    /\ call = Idle
    /\ modal_skymap = ModalSkymap
    /\ transfer = TransferPage
    /\ bar = SearchBar

-----------------------------------------------------------------------------
(* Inputs *)

TypedTriggers == {"search_bar_input", "search_bar_submit", "search_bar_suggestion"}

\* what the search bar may hold when a search is submitted
Values ==
    {None, "", "  ", "foo?", "trend=rising", "last=5",
     "class=SN last=10", " class=SN last=10 "}

\* what the search bar may hold when the url triggers a search: still unset,
\* or emptied by the user
UrlStateValues == {None, ""}

\* all dicts with keys among those of vals, each key with a value vals allows
Dicts(vals) ==
    UNION { {f \in [T -> UNION {vals[k] : k \in DOMAIN vals}] :
                \A k \in T : f[k] \in vals[k]} :
            T \in SUBSET DOMAIN vals }

OptionValues == [trend |-> {"rising"}, last |-> {"10"}, r |-> {"30", "18001", "100000"}]

TimeValues == [after |-> {"2023-11-07"}, before |-> {"2023-12-01"}, window |-> {"7"}]

Options == Dicts(OptionValues)

TimeBounds == Dicts(TimeValues)

Bases ==
    { EmptyDict,
      [action |-> "unknown"],
      [action |-> "diaObjectid", object |-> "ZTF21abfmbix"],
      [action |-> "diaObjectId", object |-> "ZTF21abfmbix"],
      [action |-> "diaObjectid"],
      [action |-> "sso", sso |-> "Ceres"],
      [action |-> "sso"],
      [action |-> "tracklet", object |-> "TRCK_20231107_000000_00"],
      [action |-> "conesearch", ra |-> "246", dec |-> "25"],
      [action |-> "conesearch", dec |-> "25"],
      [action |-> "class", class |-> "SN"],
      [action |-> "class"],
      [action |-> "anomaly"] }

TimedBases ==
    { [action |-> "conesearch", ra |-> "246", dec |-> "25"],
      [action |-> "class", class |-> "SN"],
      [action |-> "anomaly"] }

\* the GET parameters of url.search
UrlQueries ==
    {b @@ e : b \in Bases, e \in Options} \cup {b @@ e : b \in TimedBases, e \in TimeBounds}

SomeUrl == [action |-> "anomaly"]

Input(trig, n, hasurl, url, value, show_table) ==
    [trig |-> trig, n |-> n, hasurl |-> hasurl, url |-> url, value |-> value,
     show_table |-> show_table]

\* a trigger whose counter is still unset fires on the initial mount only; the
\* url matters to a typed search only through being set or not
TypedInputs ==
    { Input(t, FALSE, FALSE, EmptyDict, None, FALSE) : t \in TypedTriggers }
    \cup
    { Input(t, TRUE, FALSE, EmptyDict, v, st) :
        t \in TypedTriggers, v \in Values, st \in BOOLEAN }
    \cup
    { Input(t, TRUE, TRUE, SomeUrl, v, st) :
        t \in TypedTriggers, v \in {w \in Values : Falsy(w)}, st \in BOOLEAN }

\* the page opened by a link (the search bar unset), or a link followed from
\* the page
UrlInputs ==
    { Input("url", FALSE, TRUE, q, None, st) : q \in UrlQueries, st \in BOOLEAN }
    \cup
    { Input("url", FALSE, TRUE, q, v, FALSE) :
        q \in {[action |-> "unknown"], SomeUrl}, v \in UrlStateValues }
    \cup
    { Input("", FALSE, u, IF u THEN SomeUrl ELSE EmptyDict, v, FALSE) :
        u \in BOOLEAN, v \in UrlStateValues }
    \cup
    { Input("url", FALSE, FALSE, EmptyDict, v, FALSE) : v \in UrlStateValues }

-----------------------------------------------------------------------------
(* The search page: one search at a time, typed or by url *)

Submit ==
    /\ \E input \in TypedInputs : Begin(1, input)
    /\ UNCHANGED <<nfresh, nrepeat>>

Navigate ==
    /\ \E input \in UrlInputs : Begin(1, input)
    /\ UNCHANGED <<nfresh, nrepeat>>

Next == Submit \/ Navigate \/ Run(1) \/ Write(1)

Spec == Init /\ [][Next]_vars

-----------------------------------------------------------------------------
(* The search page reached by links only: nothing is typed in the search bar *)

NextNavigate == Navigate \/ Run(1) \/ Write(1)

SpecNavigate == Init /\ [][NextNavigate]_vars

-----------------------------------------------------------------------------
(* A long session: Solar System objects searched one after another, some  *)
(* searched again from the history, among searches that are not recorded,  *)
(* with the REST API up                                                    *)

\* a name never searched before
SearchNew ==
    /\ nfresh < MaxFresh
    /\ \E st \in BOOLEAN :
          Begin(1, Input("search_bar_input", TRUE, FALSE, EmptyDict, SsoNames[nfresh + 1], st))
    /\ nfresh' = nfresh + 1
    /\ UNCHANGED nrepeat

\* an entry of the history searched again
SearchAgain ==
    /\ nrepeat < MaxRepeat
    /\ \E v \in Range(history) :
          Begin(1, Input("search_bar_submit", TRUE, FALSE, EmptyDict, v, FALSE))
    /\ nrepeat' = nrepeat + 1
    /\ UNCHANGED nfresh

\* searches that are not dispatched
SearchNothing ==
    /\ \/ \E v \in {"", "foo?", "trend=rising"} :
             Begin(1, Input("search_bar_input", TRUE, FALSE, EmptyDict, v, FALSE))
       \/ \E q \in {[action |-> "unknown"], [action |-> "sso", trend |-> "rising"]} :
             Begin(1, Input("url", FALSE, TRUE, q, None, FALSE))
    /\ UNCHANGED <<nfresh, nrepeat>>

\* a link to a search followed while the search bar holds the latest entry
FollowLink ==
    /\ history # <<>>
    /\ Begin(1, Input("url", FALSE, TRUE, [action |-> "anomaly"], history[Len(history)], FALSE))
    /\ UNCHANGED <<nfresh, nrepeat>>

NextHistory ==
    SearchNew \/ SearchAgain \/ SearchNothing \/ FollowLink \/ RunAnswered(1) \/ Write(1)

SpecHistory == Init /\ [][NextHistory]_vars

-----------------------------------------------------------------------------
(* Links to a search: every action tag with the parameters it needs *)

LinkBases ==
    { [action |-> "unknown"],
      [action |-> "diaObjectId", object |-> "ZTF21abfmbix"],
      [action |-> "sso", sso |-> "Ceres"],
      [action |-> "tracklet", object |-> "TRCK_20231107_000000_00"],
      [action |-> "conesearch", ra |-> "246", dec |-> "25"],
      [action |-> "class", class |-> "SN"],
      [action |-> "anomaly"] }

LinkInputs ==
    { Input("url", FALSE, TRUE, b @@ e, v, st) :
        b \in LinkBases, e \in Options \cup TimeBounds, v \in UrlStateValues, st \in BOOLEAN }

FollowSearchLink ==
    /\ \E input \in LinkInputs : Begin(1, input)
    /\ UNCHANGED <<nfresh, nrepeat>>

NextLinks == FollowSearchLink \/ Run(1) \/ Write(1)

SpecLinks == Init /\ [][NextLinks]_vars

-----------------------------------------------------------------------------
(* Overlapping searches: a Solar System object is searched while earlier   *)
(* searches may still be in flight, each in its own invocation; the REST   *)
(* API answers each with the alerts of the object asked for                *)

NameIndex(v) == CHOOSE i \in DOMAIN SsoNames : SsoNames[i] = v

\* the answer of /api/v1/sso for the object named v
SsoResponses(v) ==
    {[search |-> Response(200, Records(<<Row(NameIndex(v), NameIndex(v), 1, 1, v, "")>>)),
      schema |-> Response(200, Object(Schema))]}

SearchNext(s) ==
    /\ nfresh < MaxSearches
    /\ Begin(s, Input("search_bar_input", TRUE, FALSE, EmptyDict, SsoNames[nfresh + 1], FALSE))
    /\ nfresh' = nfresh + 1
    /\ UNCHANGED nrepeat

RunSso(s) == Serve(s, SsoResponses(inv[s].args.value))

NextOverlap == \E s \in Slots : SearchNext(s) \/ RunSso(s) \/ Write(s)

SpecOverlap == Init /\ [][NextOverlap]_vars

-----------------------------------------------------------------------------
(* The result page: a link opened on a fresh page, the REST API answering  *)
(* with any table of up to MaxRows rows, then the switches and the         *)
(* dropdown of the result table used                                       *)

\* alerts of two objects, the first seen twice, and one without identifier
RowCatalogue ==
    {Row(1, 1, 1, 3, "null", ""),
     Row(1, 1, 2, 2, "Ceres", "TRCK_20231107_000000_00"),
     Row(2, 2, 3, 1, "Ceres", "TRCK_20231107_000000_00"),
     Row(NaN, NaN, 2, 2, "null", "")}

Tables == UNION {[1..n -> RowCatalogue] : n \in 0..MaxRows}

TableResponses ==
    {[search |-> Response(200, Records(t)), schema |-> Response(200, Object(Schema))] :
        t \in Tables}

ResultLinks ==
    { [action |-> "sso", sso |-> "Ceres"],
      [action |-> "conesearch", ra |-> "246", dec |-> "25"],
      [action |-> "class", class |-> "SN"] }

OpenLink ==
    /\ children = "logo"
    /\ \E q \in ResultLinks, st \in BOOLEAN : Begin(1, Input("url", FALSE, TRUE, q, None, st))
    /\ UNCHANGED <<nfresh, nrepeat>>

RunTables(s) == Serve(s, TableResponses)

SwitchIds == [object |-> "alert-object-switch", sso |-> "alert-sso-switch",
              tracklet |-> "alert-tracklet-switch"]

\* update_table fired by the change of one of its Inputs, the others as they are
Fire(changed_id, field_dropdown, switches) ==
    LET a == [changed_id |-> changed_id, field_dropdown |-> field_dropdown,
              groupby1 |-> switches.object, groupby2 |-> switches.sso,
              groupby3 |-> switches.tracklet,
              data |-> page.data, columns |-> page.columns]
    IN  upd' = [pc |-> "returned", args |-> a, out |-> UpdateTable(a)]

\* a switch is flipped
Toggle ==
    /\ page.view = "table"
    /\ upd.pc = "idle"
    /\ \E sw \in DOMAIN SwitchIds :
          LET switches == [page.switches EXCEPT ![sw] = ~@] IN
          /\ page' = [page EXCEPT !.switches = switches]
          /\ Fire(SwitchIds[sw] \o ".checked", page.dropdown, switches)
    /\ UNCHANGED <<history, children, inv, nfresh, nrepeat, call, modal_skymap, transfer, bar>>

\* a field is picked in the dropdown, or the dropdown cleared
PickField ==
    /\ page.view = "table"
    /\ upd.pc = "idle"
    /\ \E v \in (page.options \cup {None}) \ {page.dropdown} :
          /\ page' = [page EXCEPT !.dropdown = v]
          /\ Fire("field-dropdown2.value", v, page.switches)
    /\ UNCHANGED <<history, children, inv, nfresh, nrepeat, call, modal_skymap, transfer, bar>>

\* the browser writes the outputs of update_table to the table
WriteTable ==
    /\ upd.pc = "returned"
    /\ page' = IF upd.out.tag = "value" /\ page.view = "table"
               THEN [page EXCEPT !.data = upd.out.value.data,
                                 !.columns = upd.out.value.columns]
               ELSE page
    /\ upd' = Idle
    /\ UNCHANGED <<history, children, inv, nfresh, nrepeat, call, modal_skymap, transfer, bar>>

NextResults == OpenLink \/ RunTables(1) \/ Write(1) \/ Toggle \/ PickField \/ WriteTable

SpecResults == Init /\ [][NextResults]_vars

-----------------------------------------------------------------------------
(* A client of apps/api.py: request_api called with each method, output    *)
(* format and kind of payload, the server answering with any status and    *)
(* body, or not at all                                                     *)

ApiMethods == {"POST", "GET", "PUT"}

ApiOutputs == {"pandas", "raw", "json"}

ApiPayloads ==
    {JsonNone, JsonDict([endpoint |-> PyStr("/api/v1/sso")]), JsonDict([n |-> PyInt(10)])}

Statuses == {200, 204, 400, 404, 500, 503}

Bodies == {Records(<<>>), Records(SomeRows), Object(Schema), NotJson}

ApiReplies ==
    {Response(st, b) : st \in Statuses, b \in Bodies}
    \cup {Failure("ConnectionError"), Failure("Timeout")}

\* no HTTP call was made
NoReply == [tag |-> "none"]

\* request_api gets as far as requests.post or requests.get
Sends(args) ==
    /\ args.method \in {"POST", "GET"}
    /\ args.method = "GET" => Quotable(args.payload)

ApiCall ==
    /\ call.pc = "idle"
    /\ \E m \in ApiMethods, o \in ApiOutputs, j \in ApiPayloads :
          call' = [pc |-> "called",
                   args |-> [endpoint |-> "/api/v1/schema", payload |-> j,
                             output |-> o, method |-> m]]
    /\ UNCHANGED <<history, children, inv, nfresh, nrepeat, page, upd, modal_skymap, transfer, bar>>

\* the HTTP call is made and request_api returns or raises
ApiReturn ==
    /\ call.pc = "called"
    /\ Sends(call.args)
    /\ \E reply \in ApiReplies :
          call' = [pc |-> "done", args |-> call.args, reply |-> reply,
                   result |-> request_api(call.args.endpoint, call.args.payload,
                                          call.args.output, call.args.method, reply)]
    /\ UNCHANGED <<history, children, inv, nfresh, nrepeat, page, upd, modal_skymap, transfer, bar>>

\* request_api raises before any HTTP call
ApiRaise ==
    /\ call.pc = "called"
    /\ ~Sends(call.args)
    /\ call' = [pc |-> "done", args |-> call.args, reply |-> NoReply,
                result |-> request_api(call.args.endpoint, call.args.payload,
                                       call.args.output, call.args.method, NoReply)]
    /\ UNCHANGED <<history, children, inv, nfresh, nrepeat, page, upd, modal_skymap, transfer, bar>>

\* isoify_time is called on a time of the query
IsoifyTimes == NumericTexts \cup TimeValues.after \cup TimeValues.before

IsoifyCall ==
    /\ call.pc = "idle"
    /\ \E t \in IsoifyTimes : call' = [pc |-> "called", args |-> [t |-> t]]
    /\ UNCHANGED <<history, children, inv, nfresh, nrepeat, page, upd, modal_skymap, transfer, bar>>

IsoifyReturn ==
    /\ call.pc = "called"
    /\ call' = [pc |-> "done", args |-> call.args, result |-> isoify_time(call.args.t)]
    /\ UNCHANGED <<history, children, inv, nfresh, nrepeat, page, upd, modal_skymap, transfer, bar>>

NextTime == IsoifyCall \/ IsoifyReturn

SpecTime == Init /\ [][NextTime]_vars

-----------------------------------------------------------------------------
(* cards.py: get_multi_labels(pdf, colname, default, to_avoid), on the     *)
(* column `colname` of pdf: a sequence of labels, or NoColumn              *)

NoColumn == [absent |-> TRUE]

Column(labels) == [absent |-> FALSE, values |-> labels]

\* to_avoid: None or a list of labels
NotGiven == [given |-> FALSE]

Given(list) == [given |-> TRUE, list |-> list]

\* the labels of the columns, in the order np.unique sorts them
Labels == <<"AM", "Fail", "nan", "toto">>

\* i.startswith("Fail")
StartsWithFail(i) == i = "Fail"

\* the labels of S sorted as np.unique sorts them, from the k-th label on
RECURSIVE Unique(_, _)
Unique(S, k) ==
    IF k > Len(Labels) THEN <<>>
    ELSE (IF Labels[k] \in S THEN <<Labels[k]>> ELSE <<>>) \o Unique(S, k + 1)

\* "/".join(labels)
RECURSIVE Join(_)
Join(labels) ==
    IF labels = <<>> THEN ""
    ELSE IF Len(labels) = 1 THEN labels[1]
    ELSE labels[1] \o "/" \o Join(Tail(labels))

get_multi_labels(column, default, to_avoid) ==
    IF ~column.absent
    THEN LET avoid == IF ~to_avoid.given THEN {} ELSE to_avoid.list
             unique == Unique(Range(column.values), 1)
         IN IF Len(unique) = 1
            THEN column.values[1]
            ELSE Join(Unique({i \in Range(unique) : ~StartsWithFail(i) /\ i \notin avoid}, 1))
    ELSE default

Columns ==
    {NoColumn} \cup {Column(v) : v \in UNION {[1..n -> Range(Labels)] : n \in 0..MaxRows}}

AvoidLists == {NotGiven, Given({"nan"}), Given({"nan", "AM"})}

LabelsCall ==
    /\ call.pc = "idle"
    /\ \E c \in Columns, a \in AvoidLists :
          call' = [pc |-> "called", args |-> [column |-> c, default |-> None, to_avoid |-> a]]
    /\ UNCHANGED <<history, children, inv, nfresh, nrepeat, page, upd, modal_skymap, transfer, bar>>

LabelsReturn ==
    /\ call.pc = "called"
    /\ call' = [pc |-> "done", args |-> call.args,
                result |-> get_multi_labels(call.args.column, call.args.default,
                                            call.args.to_avoid)]
    /\ UNCHANGED <<history, children, inv, nfresh, nrepeat, page, upd, modal_skymap, transfer, bar>>

NextLabels == LabelsCall \/ LabelsReturn

SpecLabels == Init /\ [][NextLabels]_vars

-----------------------------------------------------------------------------
(* search_results.py: display_skymap(data, columns, is_open), fired by the *)
(* result table and by the modal; `reply` is what its call of /api/v1/sso  *)
(* meets                                                                   *)

SkymapLimit == 1000

\* a row of the result table: a static object, or an alert of a moving one
StaticRow(i) == [dia |-> i, mpc |-> "", ra |-> i]

SsoRow(i) == [dia |-> 0, mpc |-> "Ceres", ra |-> i]

\* is_row_static_or_moving(row)[1]
is_sso(row) == row.dia = 0

\* values of the `run` property
NoRun == [kind |-> "no_update"]

EmptyScript == [kind |-> "empty"]

\* the script, by the sources it adds to the map: one A.source per row
Script(pdf) == [kind |-> "script", sources |-> [i \in DOMAIN pdf |-> pdf[i].ra]]

Raised(error) == [kind |-> "raise", error |-> error]

display_skymap(data, is_open, reply) ==
    IF ~Truthy(is_open) THEN NoRun
    ELSE IF Len(data) = 0 THEN EmptyScript
    ELSE LET cut == IF Len(data) > SkymapLimit THEN SubSeq(data, 1, SkymapLimit) ELSE data
             row == cut[1]
         IN IF is_sso(row)
            THEN LET r == request_api("/api/v1/sso",
                                      JsonDict("n_or_d" :> row.mpc), "pandas", "POST", reply)
                 IN IF r.tag = "raise" THEN Raised(r.error)
                    ELSE IF r.value.rows = <<>> THEN Raised("KeyError")
                    ELSE Script(r.value.rows)
            ELSE Script(cut)

\* numbers of rows: a few, and around the limit
Sizes == (0..MaxRows) \cup ((SkymapLimit - 1)..(SkymapLimit + MaxRows))

SkymapTables ==
    {[i \in 1..n |-> StaticRow(i)] : n \in Sizes} \cup {[i \in 1..n |-> SsoRow(i)] : n \in Sizes}

SkymapReplies ==
    {Response(200, Records([i \in 1..n |-> SsoRow(i)])) : n \in Sizes}
        \cup {Failure("ConnectionError")}

SkymapFire ==
    /\ call.pc = "idle"
    /\ \E data \in SkymapTables, is_open \in {JsBoolean(FALSE), JsNumber(0 - 1), JsNumber(0)} :
          call' = [pc |-> "called", args |-> [data |-> data, is_open |-> is_open]]
    /\ UNCHANGED <<history, children, inv, nfresh, nrepeat, page, upd, modal_skymap, transfer, bar>>

SkymapReturn ==
    /\ call.pc = "called"
    /\ \E reply \in SkymapReplies :
          call' = [pc |-> "done", args |-> call.args,
                   result |-> display_skymap(call.args.data, call.args.is_open, reply)]
    /\ UNCHANGED <<history, children, inv, nfresh, nrepeat, page, upd, modal_skymap, transfer, bar>>

NextSkymap == SkymapFire \/ SkymapReturn

SpecSkymap == Init /\ [][NextSkymap]_vars

-----------------------------------------------------------------------------
(* The sky map modal: the 'Sky Map' button, and the 'Close' button of the  *)
(* open modal                                                              *)

ClickOpen ==
    /\ modal_skymap.open_modal_skymap + modal_skymap.close_modal_skymap < MaxClicks
    /\ modal_skymap' =
          [modal_skymap EXCEPT
              !.open_modal_skymap = @ + 1,
              !.is_open = toggle_modal_skymap(modal_skymap.open_modal_skymap + 1,
                                              modal_skymap.close_modal_skymap, @)]
    /\ UNCHANGED <<history, children, inv, nfresh, nrepeat, page, upd, call, transfer, bar>>

ClickClose ==
    /\ modal_skymap.open_modal_skymap + modal_skymap.close_modal_skymap < MaxClicks
    /\ Truthy(modal_skymap.is_open)
    /\ modal_skymap' =
          [modal_skymap EXCEPT
              !.close_modal_skymap = @ + 1,
              !.is_open = toggle_modal_skymap(modal_skymap.open_modal_skymap,
                                              modal_skymap.close_modal_skymap + 1, @)]
    /\ UNCHANGED <<history, children, inv, nfresh, nrepeat, page, upd, call, transfer, bar>>

NextModal == ClickOpen \/ ClickClose

SpecModal == Init /\ [][NextModal]_vars

-----------------------------------------------------------------------------
(* The data transfer page: the stepper, the submission, the log            *)

StatusCodes == {201, 403, 500}

\* Back or Next is clicked, where displayed: update
ClickStep(button_id) ==
    /\ IF button_id = "back-basic-usage" THEN ~transfer.back_hidden ELSE ~transfer.next_hidden
    /\ transfer' = [transfer EXCEPT
                       !.active = update(button_id, transfer.active),
                       !.triggered_id = button_id,
                       !.current = transfer.active,
                       !.pending = {"first_step", "last_step"}]
    /\ UNCHANGED <<history, children, inv, nfresh, nrepeat, page, upd, call, modal_skymap, bar>>

ClickBack == ClickStep("back-basic-usage")

ClickNext == ClickStep("next-basic-usage")

FirstStep ==
    /\ "first_step" \in transfer.pending
    /\ transfer' = [transfer EXCEPT
                       !.back_hidden = first_step(transfer.active),
                       !.pending = @ \ {"first_step"}]
    /\ UNCHANGED <<history, children, inv, nfresh, nrepeat, page, upd, call, modal_skymap, bar>>

LastStep ==
    /\ "last_step" \in transfer.pending
    /\ transfer' = [transfer EXCEPT
                       !.next_hidden = last_step(transfer.active),
                       !.pending = @ \ {"last_step"}]
    /\ UNCHANGED <<history, children, inv, nfresh, nrepeat, page, upd, call, modal_skymap, bar>>

\* 'Submit job' is clicked, where enabled: submit_job, the two services
\* answering with any status
ClickSubmit ==
    /\ ~transfer.disabled
    /\ transfer.topics < MaxSubmits
    /\ \E upload \in StatusCodes, spark \in StatusCodes :
          LET topic == transfer.topics + 1
              out == submit_job(1, topic, upload, spark, transfer.batches + 1)
          IN transfer' =
                [transfer EXCEPT
                    !.topics = topic,
                    !.uploaded = IF out.upload = 201 THEN @ \cup {topic} ELSE @,
                    !.batches = IF out.spark = 201 THEN @ + 1 ELSE @,
                    !.disabled = out.disabled,
                    !.notification = out.notification,
                    !.batch_id = IF out.set THEN out.batch_id ELSE @,
                    !.topic_name = IF out.set THEN out.topic_name ELSE @,
                    !.job = [clicked |-> TRUE, upload |-> out.upload, spark |-> out.spark,
                             batch_id |-> transfer.batch_id,
                             topic_name |-> transfer.topic_name]]
    /\ UNCHANGED <<history, children, inv, nfresh, nrepeat, page, upd, call, modal_skymap, bar>>

\* the interval fires, or batch_id changed: update_log
PollLog ==
    /\ \E reply \in {"log", "traceback", "msg", "other"} :
          transfer' =
             [transfer EXCEPT
                 !.polled = IF transfer.batch_id # NoBatch
                            THEN @ \cup {transfer.batch_id} ELSE @,
                 !.batch_log = IF update_log(transfer.batch_id, reply)
                                     \in {"", "UnboundLocalError"}
                               THEN @ ELSE update_log(transfer.batch_id, reply)]
    /\ UNCHANGED <<history, children, inv, nfresh, nrepeat, page, upd, call, modal_skymap, bar>>

\* 'Clear and restart': the page is loaded anew, the services keep their state
Restart ==
    /\ transfer' = PageLayout @@ [k \in DOMAIN Services |-> transfer[k]]
    /\ UNCHANGED <<history, children, inv, nfresh, nrepeat, page, upd, call, modal_skymap, bar>>

NextTransfer ==
    ClickBack \/ ClickNext \/ FirstStep \/ LastStep \/ ClickSubmit \/ PollLog \/ Restart

SpecTransfer == Init /\ [][NextTransfer]_vars

-----------------------------------------------------------------------------
(* The card view of a result: its pages                                    *)

CardRows(n) == [i \in 1..n |-> Row(i, i, i, 1, "Ceres", "")]

\* `results` lays the cards of a result out
ShowCards ==
    /\ \E n \in 0..MaxCards, size \in PageSizes :
          page' = display_cards_results(CardRows(n), size)
    /\ UNCHANGED <<history, children, inv, nfresh, nrepeat, upd, call, modal_skymap, transfer, bar>>

\* a page is picked in the pagination
SelectPage ==
    /\ page.view = "cards"
    /\ \E n \in 1..page.total :
          /\ n # page.value
          /\ page' = [page EXCEPT !.value = n, !.pending = TRUE]
    /\ UNCHANGED <<history, children, inv, nfresh, nrepeat, upd, call, modal_skymap, transfer, bar>>

OnPaginate ==
    /\ page.view = "cards"
    /\ page.pending
    /\ page' = [page EXCEPT
                   !.pending = FALSE,
                   !.results_paginated =
                       on_paginate(page.value, page.results_store,
                                   page.results_page_size_store)]
    /\ UNCHANGED <<history, children, inv, nfresh, nrepeat, upd, call, modal_skymap, transfer, bar>>

NextCards == ShowCards \/ SelectPage \/ OnPaginate

SpecCards == Init /\ [][NextCards]_vars

-----------------------------------------------------------------------------
(* The search bar: typing, submitting, the debounce timer, the suggestions *)

BarValues == {"", "  ", "Ceres", "foo?"}

\* update_suggestions is fired with the values of its Inputs and State
Fired(prop_id, n_intervals, value) ==
    [prop_id |-> prop_id, n_intervals |-> n_intervals, value |-> value]

\* the timer callback runs, triggered by `triggered`; a reset of n_intervals
\* fires update_suggestions
Timer(triggered, value, fired) ==
    LET out == start_suggestion_debounce_timer(triggered, bar.n_intervals)
    IN /\ Cardinality(bar.pending) < MaxPending
       /\ bar' = [bar EXCEPT
                     !.value = value,
                     !.n_intervals = IF out.reset THEN 0 ELSE @,
                     !.disabled = out.disabled,
                     !.timer = [ran |-> TRUE, triggered |-> triggered,
                                n_intervals |-> bar.n_intervals, out |-> out],
                     !.pending = @ \cup fired
                                   \cup (IF out.reset
                                        THEN {Fired("search_bar_timer", 0, value)} ELSE {})]
       /\ UNCHANGED <<history, children, inv, nfresh, nrepeat, page, upd, call,
                      modal_skymap, transfer>>

\* the text of the input is changed
InputChange ==
    \E v \in BarValues \ {bar.value} : Timer("search_bar_input.value", v, {})

\* Enter in the input
Enter ==
    Timer("search_bar_input.n_submit", bar.value,
          {Fired("search_bar_input", bar.n_intervals, bar.value)})

\* the search button
ClickSearch ==
    Timer("search_bar_submit.n_clicks", bar.value,
          {Fired("search_bar_submit", bar.n_intervals, bar.value)})

\* the suggestion item of the open panel
ClickSuggestion ==
    /\ bar.is_open
    /\ bar.suggestions
    /\ Cardinality(bar.pending) < MaxPending
    /\ bar' = [bar EXCEPT
                  !.pending = @ \cup {Fired(SuggestionId, bar.n_intervals, bar.value)}]
    /\ UNCHANGED <<history, children, inv, nfresh, nrepeat, page, upd, call,
                   modal_skymap, transfer>>

\* the interval elapses: max_intervals = 1
Tick ==
    /\ ~bar.disabled
    /\ bar.n_intervals < 1
    /\ Cardinality(bar.pending) < MaxPending
    /\ bar' = [bar EXCEPT
                  !.n_intervals = 1,
                  !.pending = @ \cup {Fired("search_bar_timer", 1, bar.value)}]
    /\ UNCHANGED <<history, children, inv, nfresh, nrepeat, page, upd, call,
                   modal_skymap, transfer>>

\* an invocation of update_suggestions runs and its outputs are written
UpdateSuggestions ==
    /\ \E i \in bar.pending :
          LET out == update_suggestions(i.prop_id, i.n_intervals, i.value)
          IN bar' = [bar EXCEPT
                        !.pending = @ \ {i},
                        !.suggestions = CASE out.children = "suggestions" -> TRUE
                                          [] out.children = "None" -> FALSE
                                          [] OTHER -> @,
                        !.is_open = CASE out.is_open = "True" -> TRUE
                                      [] out.is_open = "False" -> FALSE
                                      [] OTHER -> @,
                        !.last = [ran |-> TRUE, fired |-> i, out |-> out]]
    /\ UNCHANGED <<history, children, inv, nfresh, nrepeat, page, upd, call,
                   modal_skymap, transfer>>

NextBar == InputChange \/ Enter \/ ClickSearch \/ ClickSuggestion \/ Tick \/ UpdateSuggestions

SpecBar == Init /\ [][NextBar]_vars

NextApi == ApiCall \/ ApiReturn \/ ApiRaise

SpecApi == Init /\ [][NextApi]_vars

-----------------------------------------------------------------------------
(* Properties *)

Returned(s) == inv[s].pc = "returned"

AllIdle == \A s \in Slots : inv[s].pc = "idle"

\* the invocation in slot s has returned and had a query with an action to handle
HasQuery(s) ==
    /\ Returned(s)
    /\ Parses(inv[s].args)
    /\ "action" \in DOMAIN QueryOf(inv[s].args)

Action(s) == QueryOf(inv[s].args).action

Params(s) == DOMAIN QueryOf(inv[s].args).params

Ret(s) == inv[s].out.ret

Calls(s) == inv[s].out.calls

\* the calls of request_api for a search (not the one for the schema of the table)
SearchCalls(s) == SelectSeq(Calls(s), LAMBDA c : c.endpoint # "/api/v1/schema")

\* the invocation in slot s called the REST API and returned a result or "nothing found"
Dispatched(s) ==
    /\ Returned(s)
    /\ Ret(s).kind = "return"
    /\ Ret(s).children \in {"nothing found", "results"}

\* the invocation in slot s returns the history it was given, or leaves the store alone
KeepsHistory(s) ==
    ~Ret(s).history.update \/ Ret(s).history.data = inv[s].args.history

NoDuplicates(h) == \A i, j \in DOMAIN h : h[i] = h[j] => i = j

Occurrences(h, x) == Cardinality({i \in DOMAIN h : h[i] = x})

\* C1: starting from an empty history, whatever searches are made (recorded,
\* empty-result, rejected, unknown, by url), the stored history and every
\* history `results` returns have at most 10 entries.
C1_HistoryAtMostTen ==
    /\ Len(history) <= 10
    /\ \A s \in Slots :
          Returned(s) /\ Ret(s).history.update => Len(Ret(s).history.data) <= 10

\* an eleventh distinct text has been recorded and the history holds 10 entries
C1_Witness == AllIdle /\ nfresh > 10 /\ Len(history) = 10

\* C2: when `results` records the text x of a dispatched search, x is in the
\* returned history exactly once, as its last entry, wherever it stood before;
\* recording the text that is already the last entry changes nothing; and the
\* history never holds a text twice.
C2_RecordedOnceAtTail ==
    /\ NoDuplicates(history)
    /\ \A s \in Slots :
          Dispatched(s) =>
             LET x  == ValueOf(inv[s].args)
                 h0 == inv[s].args.history
                 h  == Ret(s).history.data
             IN  /\ Ret(s).history.update
                 /\ h # <<>>
                 /\ h[Len(h)] = x
                 /\ Occurrences(h, x) = 1
                 /\ NoDuplicates(h)
                 /\ (h0 # <<>> /\ h0[Len(h0)] = x => h = h0)

\* a text that stood first in a history of three or more has been recorded again
C2_Witness ==
    \E s \in Slots :
       /\ Dispatched(s)
       /\ Len(inv[s].args.history) >= 3
       /\ inv[s].args.history[1] = ValueOf(inv[s].args)

\* C3: after n distinct texts recorded one after another (none searched
\* again), the history is the last 10 of them in the order they were recorded,
\* and all of them while n <= 10.
C3_LatestTenInOrder ==
    AllIdle /\ nrepeat = 0 =>
       history = SubSeq(SsoNames, IF nfresh > 10 THEN nfresh - 9 ELSE 1, nfresh)

\* twelve distinct texts have been recorded, the two oldest dropped
C3_Witness == AllIdle /\ nrepeat = 0 /\ nfresh >= 12 /\ history[1] = SsoNames[nfresh - 9]

\* C4: an invocation whose query has action unknown, with or without other
\* parameters, makes no call of request_api.
C4_UnknownNeverCalls ==
    \A s \in Slots : HasQuery(s) /\ Action(s) = "unknown" => Calls(s) = <<>>

\* a query of action unknown got as far as the chain on the action
C4_Witness ==
    \E s \in Slots :
       HasQuery(s) /\ Action(s) = "unknown" /\ Ret(s).children = "not recognized"

\* C5: an invocation with an empty input string, or with a query of action
\* unknown, leaves the stored history as it was.
C5_EmptyOrUnknownKeepsHistory ==
    \A s \in Slots :
       /\ Returned(s)
       /\ \/ inv[s].args.value = ""
          \/ HasQuery(s) /\ Action(s) = "unknown"
       => KeepsHistory(s)

\* C6: a query with `trend` and without `class` in its parameters is rejected
\* with the warning, without a call of request_api and with the history as it was.
C6_TrendWithoutClassRejected ==
    \A s \in Slots :
       HasQuery(s) /\ "trend" \in Params(s) /\ "class" \notin Params(s) =>
          /\ Ret(s).kind = "return"
          /\ Ret(s).children = "trend warning"
          /\ Calls(s) = <<>>
          /\ KeepsHistory(s)

C8_RadiusCapped ==
    \A s \in Slots :
       HasQuery(s) /\ Action(s) = "conesearch" /\ Calls(s) # <<>> =>
          LET p == QueryOf(inv[s].args).params
              c == Calls(s)[1]
          IN  /\ c.endpoint = "/api/v1/conesearch"
              /\ c.json.radius <= 18000
              /\ "r" \in DOMAIN p =>
                    c.json.radius = Min(NumericValue[p.r], 18000)
              /\ "r" \notin DOMAIN p => c.json.radius = 10

\* a cone search asked with r=100000 was sent with radius 18000
C8_Witness ==
    \E s \in Slots :
       /\ HasQuery(s) /\ Action(s) = "conesearch" /\ Calls(s) # <<>>
       /\ "r" \in Params(s)
       /\ QueryOf(inv[s].args).params.r = "100000"
       /\ Calls(s)[1].json.radius = 18000

\* C9: the payload of every class search sent has `class` as in the parameters
\* and n = last when given, 100 when not; without after, before and trend it
\* has these two keys only.
C9_ClassPayload ==
    \A s \in Slots :
       HasQuery(s) /\ Action(s) = "class" /\ Calls(s) # <<>> =>
          LET p == QueryOf(inv[s].args).params
              c == Calls(s)[1]
          IN  /\ c.endpoint = "/api/v1/latests"
              /\ c.json["class"] = Get(p, "class", None)
              /\ c.json["n"] = IF "last" \in DOMAIN p THEN NumericValue[p.last] ELSE 100
              /\ DOMAIN p \cap {"after", "before", "trend"} = {} =>
                    DOMAIN c.json = {"class", "n"}

\* the class search class=SN last=10 was sent as {class: SN, n: 10}
C9_Witness ==
    \E s \in Slots :
       /\ HasQuery(s) /\ Action(s) = "class" /\ Calls(s) # <<>>
       /\ Calls(s)[1].json = [class |-> "SN", n |-> 10]

\* the endpoint of each action tag
EndpointOf(action) ==
    CASE action = "diaObjectId" -> "/api/v1/sources"
      [] action = "sso" -> "/api/v1/sso"
      [] action = "tracklet" -> "/api/v1/tracklet"
      [] action = "conesearch" -> "/api/v1/conesearch"
      [] action = "class" -> "/api/v1/latests"
      [] action = "anomaly" -> "/api/v1/anomaly"

\* C10: a query with one of the action tags diaObjectId, sso, tracklet,
\* conesearch, class, anomaly that is not rejected for its `trend` makes
\* exactly one search call of request_api, to the endpoint of its tag, and does
\* not end as an unhandled query.
C10_EveryTagDispatched ==
    \A s \in Slots :
       /\ HasQuery(s)
       /\ Action(s) \in {"diaObjectId", "sso", "tracklet", "conesearch", "class", "anomaly"}
       /\ ~("trend" \in Params(s) /\ Action(s) # "class")
       => /\ Len(SearchCalls(s)) = 1
          /\ SearchCalls(s)[1].endpoint = EndpointOf(Action(s))
          /\ Ret(s).children # "unhandled"

\* C11: the payload of every cone search sent carries each time bound of the
\* query: `after` as startdate, `before` as stopdate and `window` as window,
\* whichever of the three are present.
C11_TimeBoundsPropagated ==
    \A s \in Slots :
       HasQuery(s) /\ Action(s) = "conesearch" /\ Calls(s) # <<>> =>
          LET p == QueryOf(inv[s].args).params
              c == Calls(s)[1]
          IN  /\ "after" \in DOMAIN p =>
                    /\ "startdate" \in DOMAIN c.json
                    /\ c.json.startdate = isoify_time(p.after)
              /\ "before" \in DOMAIN p =>
                    /\ "stopdate" \in DOMAIN c.json
                    /\ c.json.stopdate = isoify_time(p.before)
              /\ "window" \in DOMAIN p =>
                    /\ "window" \in DOMAIN c.json
                    /\ c.json.window = p.window

\* the typed empty value of an output format
TypedEmpty(output) ==
    CASE output = "json" -> List(<<>>)
      [] output = "raw" -> BytesIO(NoContent)
      [] OTHER -> DataFrame(<<>>)

\* C12: a call of request_api with method POST or GET that the server answers
\* with a status other than 200 returns the typed empty value of its output
\* format (empty DataFrame, empty BytesIO for raw, empty list for json) and
\* does not raise; answered with 200 it returns the body decoded for that
\* format.  (A GET whose payload holds a value that is not a str raises while
\* building the URL: no request is made and no status exists.)
C12_NonOkGivesTypedEmpty ==
    call.pc = "done" /\ call.args.method \in {"POST", "GET"} /\ call.reply.tag = "response" =>
       LET output == call.args.output
           content == call.reply.content
       IN  /\ call.reply.status_code # 200 => call.result = Value(TypedEmpty(output))
           /\ call.reply.status_code = 200 =>
                 /\ output = "raw" => call.result = Value(BytesIO(content))
                 /\ output = "json" /\ content.kind = "records" =>
                       call.result = Value(List(content.rows))
                 /\ output = "json" /\ content.kind = "object" =>
                       call.result = Value(Dict(content.fields))
                 /\ output = "pandas" /\ content.kind = "records" =>
                       call.result = Value(DataFrame(content.rows))

\* a GET in raw mode answered with status 500 and a body returned an empty BytesIO
C12_Witness ==
    /\ call.pc = "done"
    /\ call.args.method = "GET" /\ call.args.output = "raw"
    /\ call.reply.tag = "response" /\ call.reply.status_code = 500
    /\ call.reply.content = Records(SomeRows)
    /\ call.result = Value(BytesIO(NoContent))

\* C13: when the HTTP call of a search fails (no answer from the server),
\* request_api raises the error instead of returning the typed empty value,
\* and `results` ends raising that error, not with the "nothing found" alert
\* of an empty result.
C13_NetworkFailureSurfaced ==
    \A s \in Slots :
       Returned(s) =>
          \A i \in DOMAIN Calls(s) :
             LET c == Calls(s)[i] IN
             c.reply.tag = "failure" =>
                /\ request_api(c.endpoint, JsonDict(c.json), "pandas", "POST", c.reply)
                      = Thrown(c.reply.error)
                /\ Ret(s).kind = "raise"
                /\ Ret(s).error = c.reply.error
                /\ Ret(s).children # "nothing found"

\* a search whose HTTP call failed ended raising ConnectionError
C13_Witness ==
    \E s \in Slots :
       /\ Returned(s)
       /\ Calls(s) # <<>>
       /\ Calls(s)[1].reply = Failure("ConnectionError")
       /\ Ret(s).kind = "raise"

\* C14: every invocation of `results` ends in a renderable state: it returns
\* its outputs (a result view, an alert or None) or raises PreventUpdate; it
\* never ends with another error.
C14_EndsRenderable ==
    \A s \in Slots : Returned(s) => Ret(s).kind \in {"return", "PreventUpdate"}

\* the rows an invocation of `results` displays: the data of the table, or the
\* store the cards are made from
Shown(s) ==
    LET p == inv[s].out.page IN
    CASE p.view = "table" -> p.data
      [] p.view = "cards" -> p.store
      [] OTHER -> <<>>

Displays(s) == Returned(s) /\ Ret(s).kind = "return" /\ inv[s].out.page.view # "none"

\* C15: the rows a search is displayed with, as table or as cards, are in
\* ascending order of v:separation_degree for a cone search and in descending
\* order of r:midpointMjdTai for every other action.
C15_DisplayedInOrder ==
    \A s \in Slots :
       Displays(s) =>
          \A i, j \in DOMAIN Shown(s) :
             i < j =>
                IF Action(s) = "conesearch"
                THEN Shown(s)[i]["v:separation_degree"] <= Shown(s)[j]["v:separation_degree"]
                ELSE Shown(s)[i]["r:midpointMjdTai"] >= Shown(s)[j]["r:midpointMjdTai"]

\* update_table has run for a flipped switch
Deduplicates == upd.pc = "returned" /\ upd.args.changed_id # "field-dropdown2.value"

\* the indices of the rows that are the first of their value of col
Firsts(rows, col) ==
    {i \in DOMAIN rows : \A j \in DOMAIN rows : j < i => rows[j][col] # rows[i][col]}

\* the rows kept are the rows of `rows` at the indices I, in their order
KeepsExactly(kept, rows, I) ==
    \E f \in [DOMAIN kept -> I] :
       /\ \A m, n \in DOMAIN kept : m < n => f[m] < f[n]
       /\ \A i \in I : \E n \in DOMAIN kept : f[n] = i
       /\ \A n \in DOMAIN kept : kept[n] = rows[f[n]]

C18_OneModeAtATime ==
    page.view = "table" =>
       /\ Cardinality({sw \in DOMAIN SwitchIds : page.switches[sw]}) <= 1
       /\ \/ page.data = page.result
          \/ page.data = drop_duplicates(page.result, "r:diaObjectId")
          \/ page.data = UniqueOrSentinel(page.result, "i:ssnamenr", "null")
          \/ page.data = UniqueOrSentinel(page.result, "d:tracklet", "")

\* C19: no row displayed, in the table or as a card, lacks its main identifier
\* (r:ssObjectId for a Solar System search, r:diaObjectId otherwise).
C19_NoRowWithoutIdentifier ==
    \A s \in Slots :
       Displays(s) =>
          LET main_id == IF Action(s) = "sso" THEN "r:ssObjectId" ELSE "r:diaObjectId" IN
          \A i \in DOMAIN Shown(s) : Shown(s)[i][main_id] # markdownify_objectid(NaN)

\* C20: every entry of the stored history is a string, the text of a query
\* that `results` dispatched (its action is not unknown), whatever triggered
\* the searches.
C20_HistoryHoldsDispatchedTexts ==
    \A i \in DOMAIN history :
       /\ history[i] # None
       /\ parse_query(history[i]).action # "unknown"

\* C21: the history is updated atomically: no text recorded in the store is
\* lost when another invocation of `results` writes its history, also when
\* the two invocations overlap (fewer than 10 texts being recorded in all).
C21_NoRecordedQueryLost ==
    [][\A i \in DOMAIN history : \E j \in DOMAIN history' : history'[j] = history[i]]_vars

\* the browser writes the outputs that the invocation in slot s returned
Writes(s) == inv[s].pc = "returned" /\ inv'[s].pc = "idle" /\ inv[s].out.ret.kind = "return"

C23_ThresholdSeparatesMjdFromJd ==
    (call.pc = "done" /\ call.args.t \in NumericTexts) =>
        LET ft == float(call.args.t) IN
        call.result = IF ft < 2 * Threshold THEN Iso("mjd", ft) ELSE Iso("jd", ft)

\* the labels of the column that are neither to avoid nor failures
Allowed(args) ==
    {i \in Range(args.column.values) :
        /\ ~StartsWithFail(i)
        /\ args.to_avoid.given => i \notin args.to_avoid.list}

\* C24: get_multi_labels returns `default` when the column is absent, and
\* otherwise the distinct labels of the column that are neither in `to_avoid`
\* nor start with 'Fail', sorted and joined by '/', whatever the column holds,
\* a single distinct label included.
C24_LabelsExcludeAvoided ==
    call.pc = "done" =>
        IF call.args.column.absent
        THEN call.result = call.args.default
        ELSE call.result =
                Join(Unique(Allowed(call.args), 1))

\* C25: display_skymap never puts more than 1000 sources on the sky map, for
\* static objects as for Solar System objects; it emits nothing new while the
\* modal is closed, and an empty script when the table has no rows.
C25_SkymapAtMostThousandSources ==
    call.pc = "done" =>
        /\ call.result.kind = "script" => Len(call.result.sources) <= SkymapLimit
        /\ ~Truthy(call.args.is_open) => call.result = NoRun
        /\ (Truthy(call.args.is_open) /\ call.args.data = <<>>) => call.result = EmptyScript

\* C30: starting from the closed sky map modal, every click on the 'Sky Map'
\* or the 'Close' button flips the modal: the value toggle_modal_skymap writes
\* is truthy after an odd number of clicks and falsy after an even number.
C30_ClicksFlipModal ==
    Truthy(modal_skymap.is_open)
        <=> (modal_skymap.open_modal_skymap + modal_skymap.close_modal_skymap) % 2 = 1

\* the modal opened, closed by its 'Close' button, and opened again
C30_Witness ==
    /\ modal_skymap.open_modal_skymap = 2
    /\ modal_skymap.close_modal_skymap = 1
    /\ Truthy(modal_skymap.is_open)

C27_StepperWithinBounds ==
    /\ transfer.active \in min_step..max_step
    /\ transfer.triggered_id = "back-basic-usage" =>
          transfer.active = IF transfer.current = 0 THEN 0 ELSE transfer.current - 1
    /\ transfer.triggered_id = "next-basic-usage" =>
          transfer.active = IF transfer.current = 4 THEN 4 ELSE transfer.current + 1
    /\ "first_step" \notin transfer.pending =>
          (transfer.back_hidden <=> transfer.active = 0)
    /\ "last_step" \notin transfer.pending =>
          (transfer.next_hidden <=> transfer.active \in {3, 4})

\* Next was clicked at step 4, before last_step had hidden the button
C27_Witness ==
    /\ transfer.triggered_id = "next-basic-usage"
    /\ transfer.current = 4
    /\ transfer.active = 4

\* the rows of page n of the card view displayed
PageRows(n) == on_paginate(n, page.results_store, page.results_page_size_store)

RECURSIVE Pages(_)
Pages(n) == IF n = 0 THEN <<>> ELSE Pages(n - 1) \o PageRows(n)

\* C28: the pages of the card view partition the n > 0 result rows: with page
\* size s there are ceil(n/s) pages, page p shows exactly the rows
\* (p-1)*s .. min(p*s, n)-1, so that every row is on exactly one page, in
\* order, and no page is empty; an unset page is read as page 1.
C28_PagesPartitionResults ==
    (page.view = "cards" /\ page.store # <<>>) =>
        LET n == Len(page.store)
            size == int(page.results_page_size_store)
        IN /\ page.total * size >= n
           /\ (page.total - 1) * size < n
           /\ \A p \in 1..page.total :
                 /\ PageRows(p) # <<>>
                 /\ PageRows(p) =
                       [k \in 1..(Min(p * size, n) - (p - 1) * size) |->
                           page.store[(p - 1) * size + k]]
           /\ Pages(page.total) = page.store
           /\ PageRows(0) = PageRows(1)
           /\ ~page.pending => page.results_paginated = PageRows(page.value)

\* the last of several pages is displayed and holds fewer cards than the others
C28_Witness ==
    /\ page.view = "cards"
    /\ ~page.pending
    /\ page.total = 3
    /\ page.value = 3
    /\ Len(page.store) = 7
    /\ Len(page.results_paginated) = 1

Submits == {"search_bar_input", "search_bar_submit", SuggestionId}

\* C29: update_suggestions calls parse_query only when it runs with the
\* timer's n_intervals equal to 1 and a non-blank input; triggered by a submit
\* (Enter, the search button, the suggestion item) it closes the panel without
\* parsing; the timer callback disables the timer on a submit, and on a change
\* of the input enables it, with n_intervals back to 0 if it had fired.
C29_SuggestionsDebounced ==
    /\ bar.last.ran =>
          /\ bar.last.out.parsed =>
                /\ bar.last.fired.n_intervals = 1
                /\ bar.last.fired.value # None
                /\ Strip(bar.last.fired.value) # ""
                /\ bar.last.fired.prop_id \notin Submits
          /\ bar.last.fired.prop_id \in Submits =>
                /\ ~bar.last.out.parsed
                /\ bar.last.out.is_open = "False"
                /\ ~bar.is_open
    /\ bar.timer.ran =>
          IF bar.timer.triggered = "search_bar_input.value"
          THEN /\ ~bar.timer.out.disabled
               /\ ~bar.disabled
               /\ bar.timer.n_intervals > 0 => bar.timer.out.reset
          ELSE bar.timer.out.disabled /\ bar.disabled

\* the suggestions of a typed text were shown after the timer fired, and the
\* search button then closed the panel and disabled the timer
C29_Witness ==
    /\ bar.suggestions
    /\ ~bar.is_open
    /\ bar.disabled
    /\ bar.n_intervals = 1
    /\ bar.last.ran
    /\ bar.last.fired.prop_id = "search_bar_submit"
    /\ bar.pending = {}

====
